---- MODULE Spec2Model ----
(***************************************************************************)
(* A model of src/node.js: a crawler that fetches the homepage, asks an    *)
(* LLM for the source of getCleanText, compiles it, and then runs a        *)
(* PlaywrightCrawler (maxConcurrency 5, every other option at its default) *)
(* whose requestHandler extracts the text, reads the title, writes a       *)
(* document to Elasticsearch and enqueues the page's links.                *)
(*                                                                         *)
(* Strings are sequences of one-character strings, so that the sanitizer   *)
(* of generateCleanerWithGoogleAI works on characters as the code does.    *)
(* The character "F" stands for the text of a well-formed definition       *)
(* async function getCleanText(page) {...}.                                *)
(***************************************************************************)
EXTENDS Integers, Sequences, FiniteSets, TLC

\* ---------------------------------------------------------------- bounds

\* How many pieces an LLM reply is built from.
MaxPieces == 2

\* How many failures (render, extraction, title, index write, link
\* discovery) the environment injects into one run at most.
MaxFaults == 4

\* -------------------------------------------------------------- constants

\* new PlaywrightCrawler({ maxConcurrency: 5, ... })
MaxConcurrency == 5

\* The crawler is built without maxRequestRetries, so the library default
\* applies: a request whose navigation or handler fails is retried 3 times.
MaxRequestRetries == 3

\* ------------------------------------------------- strings and sanitizing

JsToken == <<"j", "a", "v", "a", "s", "c", "r", "i", "p", "t">>

\* The backtick character (U+0060), which a TLA+ string cannot hold.
Backtick == "bt"

Fence == <<Backtick, Backtick, Backtick>>

IsSpace(c) == c \in {" ", "\n"}

\* String.prototype.toLowerCase on the characters the model uses.
LowerChar(c) == IF c = "J" THEN "j" ELSE IF c = "S" THEN "s" ELSE c

ToLowerCase(s) == [i \in 1..Len(s) |-> LowerChar(s[i])]

StartsWith(s, p) == Len(s) >= Len(p) /\ SubSeq(s, 1, Len(p)) = p

Drop(s, n) == SubSeq(s, n + 1, Len(s))

\* A replace without the g flag: the first match only.
StripFirstFence(s) ==
    IF \E i \in 1..(Len(s) - 2) : SubSeq(s, i, i + 2) = Fence
    THEN LET i == CHOOSE i \in 1..(Len(s) - 2) :
                    /\ SubSeq(s, i, i + 2) = Fence
                    /\ \A j \in 1..(i - 1) : SubSeq(s, j, j + 2) # Fence
         IN  SubSeq(s, 1, i - 1) \o Drop(s, i + 2)
    ELSE s

\* code.replace(/<three backticks>/g, empty): every non-overlapping match,
\* left to right.
RECURSIVE StripFences(_)
StripFences(s) ==
    IF s = <<>> THEN <<>>
    ELSE IF StartsWith(s, Fence) THEN StripFences(Drop(s, 3))
    ELSE <<s[1]>> \o StripFences(Drop(s, 1))

RECURSIVE TrimStart(_)
TrimStart(s) ==
    IF s # <<>> /\ IsSpace(s[1]) THEN TrimStart(Drop(s, 1)) ELSE s

RECURSIVE TrimEnd(_)
TrimEnd(s) ==
    IF s # <<>> /\ IsSpace(s[Len(s)]) THEN TrimEnd(SubSeq(s, 1, Len(s) - 1)) ELSE s

Trim(s) == TrimEnd(TrimStart(s))

\* code.replace(/^javascript\s*/i, ""): one match at the start.
StripLeadingToken(s) ==
    IF StartsWith(ToLowerCase(s), JsToken) THEN TrimStart(Drop(s, Len(JsToken))) ELSE s

\* Lines 37-44 of generateCleanerWithGoogleAI.
Sanitize(code) ==
    LET stripped == Trim(StripFences(code))
    IN  IF StartsWith(ToLowerCase(stripped), JsToken)
        THEN StripLeadingToken(stripped)
        ELSE stripped

\* new Function('"use strict"; ' + source + '; return getCleanText;')():
\* the result is a function exactly when the source is one or more
\* well-formed definitions of getCleanText separated by white space.  Any
\* other text (a stray backtick, a bare identifier, nothing at all) throws
\* a SyntaxError or ReferenceError, or does not yield a function.
BuildsFunction(src) ==
    /\ \E i \in 1..Len(src) : src[i] = "F"
    /\ \A i \in 1..Len(src) : src[i] = "F" \/ IsSpace(src[i])

\* The pieces the LLM's replies are made of.
Pieces ==
    { Fence, JsToken, <<"J", "a", "v", "a", "S", "c", "r", "i", "p", "t">>,
      <<"\n">>, <<"F">>, <<Backtick>>, Fence \o JsToken \o <<"\n">> }

RECURSIVE Concats(_)
Concats(n) ==
    IF n = 0 THEN { <<>> }
    ELSE LET shorter == Concats(n - 1)
         IN  shorter \cup { s \o p : s \in shorter, p \in Pieces }

Replies == Concats(MaxPieces)


\* ------------------------------------------------------------- the sites

\* The site that is crawled is an input of the run.  Pages are numbered from
\* 1, the seed (process.argv[2]).  "cycle" and "chain" are small sites on
\* which failures are injected; "wide" has more pages than the crawler has
\* slots and is crawled without failures.
Sites == {"cycle", "chain", "wide"}

WidePages == MaxConcurrency + 2

Pages(s) == IF s = "wide" THEN 1..WidePages ELSE 1..3

AllPages == 1..WidePages

Seed == 1

\* A page on another hostname, which the cycle site links to.
OffSitePage == 4

\* The URL that is loaded when the request's URL is navigated to
\* (request.loadedUrl): on the chain site page 3 redirects to the seed.
LoadedUrl(s, p) == IF s = "chain" /\ p = 3 THEN 1 ELSE p

\* An anchor's target once resolved against the base URL: the host it is on,
\* the page and whether it carries a fragment.
Href(h, p, f) == [host |-> h, page |-> p, frag |-> f]

\* The anchors of the page loaded from each URL, in document order.
Anchors(s, p) ==
    IF s = "cycle" THEN
        CASE p = 1 -> << Href("site", 2, FALSE), Href("site", 3, FALSE),
                         Href("site", 1, TRUE), Href("other", OffSitePage, FALSE) >>
          [] p = 2 -> << Href("site", 1, FALSE), Href("site", 3, TRUE) >>
          [] OTHER -> << Href("site", 3, TRUE), Href("site", 2, FALSE),
                         Href("site", 1, FALSE) >>
    ELSE IF s = "chain" THEN
        CASE p = 1 -> << Href("site", 2, TRUE), Href("site", 2, FALSE) >>
          [] p = 2 -> << Href("site", 3, FALSE) >>
          [] OTHER -> << Href("site", 1, FALSE) >>
    ELSE
        IF p = 1 THEN [i \in 1..(WidePages - 1) |-> Href("site", i + 1, FALSE)]
        ELSE << Href("site", 1, FALSE) >>

\* What getCleanText returns for the page loaded from the URL when it does
\* not throw: page 3 of the small sites has no body text.
PageText(s, p) == IF s # "wide" /\ p = 3 THEN "" ELSE "text"

\* How many failures the environment may inject into a run on this site:
\* none on the wide site, one fewer on the site whose pages are processed
\* concurrently than on the chain, where a request can use up its retries.
Budget(s) ==
    IF s = "wide" THEN 0 ELSE IF s = "cycle" THEN MaxFaults - 1 ELSE MaxFaults

\* ------------------------------------------------------------- the state

VARIABLES
    pc,         \* where run() is: fetch, generate, build, run, crawl, done
    site,       \* the site being crawled
    reply,      \* the text of the LLM's reply, until it is compiled
    source,     \* getCleanTextSource, between generation and compilation
    outcome,    \* what run() logged: none, complete, error
    exitCode,   \* the process's exit code once run() has settled, else -1
    queue,      \* the request queue's pending requests, oldest first
    st,         \* per page: new, queued, nav, clean, title, index, links,
                \*           handled, failed
    retry,      \* per page: request.retryCount
    err,        \* per page: the step whose failure ended its latest attempt
    enq,        \* per page: how often addRequest inserted it into the queue
    renders,    \* per page: how often it was navigated to
    writes,     \* per page: how often esClient.index was called for it
    wfail,      \* per page: whether an index write for it failed
    sink,       \* the documents handed to esClient.index: <<url, content>>
    inserted,   \* the uniqueKeys addRequest inserted, in that order
    started,    \* the requests in the order of their first dispatch
    faults      \* failures injected so far

vars == << pc, site, reply, source, outcome, exitCode, queue, st, retry, err,
           enq, renders, writes, wfail, sink, inserted, started, faults >>

startup == << pc, reply, source, outcome, exitCode >>

crawl == << queue, st, retry, err, enq, renders, writes, wfail, sink, inserted,
           started, faults >>

InFlightStates == {"nav", "clean", "title", "index", "links"}

InFlight == { u \in AllPages : st[u] \in InFlightStates }

Init ==
    /\ pc = "fetch"
    /\ site \in Sites
    /\ reply = <<>>
    /\ source = <<>>
    /\ outcome = "none"
    /\ exitCode = -1
    /\ queue = <<>>
    /\ st = [u \in AllPages |-> "new"]
    /\ retry = [u \in AllPages |-> 0]
    /\ err = [u \in AllPages |-> "none"]
    /\ enq = [u \in AllPages |-> 0]
    /\ renders = [u \in AllPages |-> 0]
    /\ writes = [u \in AllPages |-> 0]
    /\ wfail = [u \in AllPages |-> FALSE]
    /\ sink = {}
    /\ inserted = <<>>
    /\ started = <<>>
    /\ faults = 0


\* --------------------------------------------------------------- startup

StartupErrors == {"fetchError", "noCode", "buildError"}

\* A startup error that is logged where it is found instead of thrown: the
\* run goes on to the crawl.
ThrowAndGoOn(message) ==
    /\ pc' = "run"
    /\ outcome' = message
    /\ reply' = <<>>
    /\ source' = <<>>
    /\ UNCHANGED exitCode

\* An error thrown inside buildCrawler reaches the catch of run(), which
\* logs it; run() then returns and the process ends with Node's default
\* exit code, as nothing sets process.exitCode or calls process.exit.
Throw(message) ==
    /\ pc' = "done"
    /\ outcome' = message
    /\ exitCode' = 0
    /\ reply' = <<>>
    /\ source' = <<>>

\* (A) fetch(websiteUrl): the response is OK, is not OK, or fetch rejects.
FetchHomepage ==
    /\ pc = "fetch"
    /\ \E response \in {"ok", "notOk", "rejected"} :
        IF response = "ok"
        THEN /\ pc' = "generate"
             /\ UNCHANGED << reply, source, outcome, exitCode >>
        ELSE Throw("fetchError")
    /\ UNCHANGED << site, crawl >>

\* (B) generateCleanerWithGoogleAI: the reply's text is sanitized and
\* returned; an empty text throws.
GenerateCleaner ==
    /\ pc = "generate"
    /\ \E code \in Replies :
        IF code = <<>>
        THEN Throw("noCode")
        ELSE /\ reply' = code
             /\ source' = Sanitize(code)
             /\ pc' = "build"
             /\ UNCHANGED << outcome, exitCode >>
    /\ UNCHANGED << site, crawl >>

\* (C) new Function(...)(): getCleanText must come out a function.  The
\* source text is not used again once compiled.
BuildFunction ==
    /\ pc = "build"
    /\ IF BuildsFunction(source)
       THEN /\ pc' = "run"
            /\ reply' = <<>>
            /\ source' = <<>>
            /\ UNCHANGED << outcome, exitCode >>
       ELSE Throw("buildError")
    /\ UNCHANGED << site, crawl >>

\* ----------------------------------------------------- the request queue

\* The request's uniqueKey: the URL without its fragment.
UniqueKey(h) == h.page

\* enqueueLinks keeps the anchors on the hostname of the page (its default
\* strategy).
SameHostname(h) == h.host = "site"

\* A queue that takes every request for one it has held.
AlreadyPresentAlways(stt, key) == TRUE

\* A queue that keeps no record of the uniqueKeys it has held.
AlreadyPresentNever(stt, key) == FALSE

\* Whether the queue has ever held a request with this uniqueKey.
AlreadyPresent(stt, key) == stt[key] # "new"

\* addRequest for each anchor in turn: a request whose uniqueKey the queue
\* has not seen is appended, any other is dropped.  The result is the
\* sequence of keys inserted, oldest first.
RECURSIVE Inserted(_, _, _)
Inserted(stt, hrefs, acc) ==
    IF hrefs = <<>> THEN acc
    ELSE LET h == Head(hrefs)
             k == UniqueKey(h)
             isDup == \E i \in 1..Len(acc) : acc[i] = k
         IN  IF SameHostname(h) /\ ~AlreadyPresent(stt, k) /\ ~isDup
             THEN Inserted(stt, Tail(hrefs), Append(acc, k))
             ELSE Inserted(stt, Tail(hrefs), acc)

Range(q) == { q[i] : i \in 1..Len(q) }

\* --------------------------------------------------------------- the run

\* crawler.run([{ url: websiteUrl }]): the seed is added to the queue.
StartRun ==
    /\ pc = "run"
    /\ pc' = "crawl"
    /\ queue' = << Seed >>
    /\ st' = [st EXCEPT ![Seed] = "queued"]
    /\ enq' = [enq EXCEPT ![Seed] = @ + 1]
    /\ inserted' = Append(inserted, Seed)
    /\ UNCHANGED << site, reply, source, outcome, exitCode, retry, err, renders,
                    writes, wfail, sink, started, faults >>

\* A pool without an upper limit.
HasCapacityAlways == TRUE

\* The pool starts a task only below maxConcurrency.
HasCapacity == Cardinality(InFlight) < MaxConcurrency

\* A dispatch that leaves the request it hands out in the queue.
DispatchWithoutRemoving ==
    /\ pc = "crawl"
    /\ queue # <<>>
    /\ HasCapacity
    /\ LET u == Head(queue)
       IN  /\ st' = [st EXCEPT ![u] = "nav"]
           /\ renders' = [renders EXCEPT ![u] = @ + 1]
           /\ started' = IF renders[u] = 0 THEN Append(started, u) ELSE started
    /\ UNCHANGED << site, startup, queue, retry, err, enq, writes, wfail, sink,
                    inserted, faults >>

\* A dispatch that takes the newest request of the queue.
DispatchNewestFirst ==
    /\ pc = "crawl"
    /\ queue # <<>>
    /\ HasCapacity
    /\ LET u == queue[Len(queue)]
       IN  /\ st' = [st EXCEPT ![u] = "nav"]
           /\ renders' = [renders EXCEPT ![u] = @ + 1]
           /\ started' = IF renders[u] = 0 THEN Append(started, u) ELSE started
    /\ queue' = SubSeq(queue, 1, Len(queue) - 1)
    /\ UNCHANGED << site, startup, retry, err, enq, writes, wfail, sink,
                    inserted, faults >>

\* The next request is taken from the head of the queue and its page is
\* navigated to.
Dispatch ==
    /\ pc = "crawl"
    /\ queue # <<>>
    /\ HasCapacity
    /\ LET u == Head(queue)
       IN  /\ st' = [st EXCEPT ![u] = "nav"]
           /\ renders' = [renders EXCEPT ![u] = @ + 1]
           /\ started' = IF renders[u] = 0 THEN Append(started, u) ELSE started
    /\ queue' = Tail(queue)
    /\ UNCHANGED << site, startup, retry, err, enq, writes, wfail, sink,
                    inserted, faults >>

\* A step of the request's processing went through.
Advance(u, from, to) ==
    /\ pc = "crawl"
    /\ st[u] = from
    /\ st' = [st EXCEPT ![u] = to]

\* A failed request that is put back in the queue however often it has
\* been retried.
FailureRetriesWithoutLimit(u, step) ==
    /\ pc = "crawl"
    /\ st[u] = step
    /\ faults < Budget(site)
    /\ faults' = faults + 1
    /\ err' = [err EXCEPT ![u] = step]
    /\ retry' = [retry EXCEPT ![u] = @ + 1]
    /\ st' = [st EXCEPT ![u] = "queued"]
    /\ queue' = Append(queue, u)
    /\ UNCHANGED << site, reply, source, exitCode, outcome, enq, renders,
                    writes, wfail, sink, inserted, started >>
    /\ UNCHANGED pc

\* A request's error that escapes the crawler and reaches the catch of
\* run(): the run is over with the other requests left where they are.
FailureEndsRun(u, step) ==
    /\ pc = "crawl"
    /\ st[u] = step
    /\ faults < Budget(site)
    /\ faults' = faults + 1
    /\ err' = [err EXCEPT ![u] = step]
    /\ st' = [st EXCEPT ![u] = "failed"]
    /\ pc' = "done"
    /\ outcome' = "requestError"
    /\ exitCode' = 0
    /\ UNCHANGED << site, reply, source, queue, retry, enq, renders, writes,
                    wfail, sink, inserted, started >>

\* The navigation or the requestHandler threw: the crawler retries the
\* request, putting it back at the end of the queue, until it has been
\* retried maxRequestRetries times; then it is marked failed.
Failure(u, step) ==
    /\ pc = "crawl"
    /\ st[u] = step
    /\ faults < Budget(site)
    /\ faults' = faults + 1
    /\ err' = [err EXCEPT ![u] = step]
    /\ IF retry[u] < MaxRequestRetries
       THEN /\ retry' = [retry EXCEPT ![u] = @ + 1]
            /\ st' = [st EXCEPT ![u] = "queued"]
            /\ queue' = Append(queue, u)
       ELSE /\ st' = [st EXCEPT ![u] = "failed"]
            /\ UNCHANGED << retry, queue >>
    /\ UNCHANGED << site, startup, enq, renders, writes, wfail, sink, inserted,
                    started >>

\* The page loaded: the requestHandler is called.
NavigationDone(u) ==
    /\ Advance(u, "nav", "clean")
    /\ UNCHANGED << site, startup, queue, retry, err, enq, renders, writes,
                    wfail, sink, inserted, started, faults >>

NavigationFailed(u) == Failure(u, "nav")

\* const pageText = await getCleanText(page);
CleanTextDone(u) ==
    /\ Advance(u, "clean", "title")
    /\ UNCHANGED << site, startup, queue, retry, err, enq, renders, writes,
                    wfail, sink, inserted, started, faults >>

CleanTextThrew(u) == Failure(u, "clean")

\* const pageTitle = await page.title();
TitleDone(u) ==
    /\ Advance(u, "title", "index")
    /\ UNCHANGED << site, startup, queue, retry, err, enq, renders, writes,
                    wfail, sink, inserted, started, faults >>

\* A title read that throws only after the document was handed to the
\* index.
TitleThrewAfterWrite(u) ==
    /\ pc = "crawl"
    /\ st[u] = "title"
    /\ faults < Budget(site)
    /\ faults' = faults + 1
    /\ err' = [err EXCEPT ![u] = "title"]
    /\ writes' = [writes EXCEPT ![u] = @ + 1]
    /\ IF retry[u] < MaxRequestRetries
       THEN /\ retry' = [retry EXCEPT ![u] = @ + 1]
            /\ st' = [st EXCEPT ![u] = "queued"]
            /\ queue' = Append(queue, u)
       ELSE /\ st' = [st EXCEPT ![u] = "failed"]
            /\ UNCHANGED << retry, queue >>
    /\ UNCHANGED << site, startup, enq, renders, wfail, sink, inserted, started >>

TitleThrew(u) == Failure(u, "title")

\* The URL of the request (request.url).
RequestUrl(u) == u

\* The base the anchors are resolved against: baseUrl: request.loadedUrl.
BaseUrl(u) == LoadedUrl(site, u)

\* documentData, as far as the model goes: url: request.url and content:
\* the text of the page that was loaded.
Document(u) == << RequestUrl(u), PageText(site, LoadedUrl(site, u)) >>

\* await esClient.index(...) inside try/catch: the write succeeds, or it
\* fails and the error is logged; the handler goes on either way.
IndexWrite(u, ok) ==
    /\ Advance(u, "index", "links")
    /\ writes' = [writes EXCEPT ![u] = @ + 1]
    /\ sink' = sink \cup { Document(u) }
    /\ IF ok
       THEN UNCHANGED << wfail, faults >>
       ELSE /\ faults < Budget(site)
            /\ faults' = faults + 1
            /\ wfail' = [wfail EXCEPT ![u] = TRUE]
    /\ UNCHANGED << site, startup, queue, retry, err, enq, renders, inserted,
                    started >>

\* An index write whose error is not caught in the handler and stops the
\* whole run.
IndexFailedEndsRun(u) ==
    /\ pc = "crawl"
    /\ st[u] = "index"
    /\ faults < Budget(site)
    /\ faults' = faults + 1
    /\ writes' = [writes EXCEPT ![u] = @ + 1]
    /\ wfail' = [wfail EXCEPT ![u] = TRUE]
    /\ st' = [st EXCEPT ![u] = "failed"]
    /\ pc' = "done"
    /\ outcome' = "requestError"
    /\ exitCode' = 0
    /\ UNCHANGED << site, reply, source, queue, retry, err, enq, renders, sink,
                    inserted, started >>

\* An index write whose error leaves the handler: the crawler puts the
\* request back in the queue.
IndexFailedRequeues(u) ==
    /\ pc = "crawl"
    /\ st[u] = "index"
    /\ faults < Budget(site)
    /\ faults' = faults + 1
    /\ writes' = [writes EXCEPT ![u] = @ + 1]
    /\ sink' = sink \cup { Document(u) }
    /\ wfail' = [wfail EXCEPT ![u] = TRUE]
    /\ IF retry[u] < MaxRequestRetries
       THEN /\ retry' = [retry EXCEPT ![u] = @ + 1]
            /\ st' = [st EXCEPT ![u] = "queued"]
            /\ queue' = Append(queue, u)
       ELSE /\ st' = [st EXCEPT ![u] = "failed"]
            /\ UNCHANGED << retry, queue >>
    /\ UNCHANGED << site, startup, err, enq, renders, inserted, started >>

IndexDone(u) == IndexWrite(u, TRUE)

IndexFailed(u) == IndexWrite(u, FALSE)

\* await enqueueLinks({ selector: 'a', baseUrl: request.loadedUrl }); the
\* handler returns and the request is marked handled.
EnqueueLinksDone(u) ==
    /\ pc = "crawl"
    /\ st[u] = "links"
    /\ LET new == Inserted(st, Anchors(site, BaseUrl(u)), <<>>)
       IN  /\ queue' = queue \o new
           /\ st' = [v \in AllPages |->
                        IF v = u THEN "handled"
                        ELSE IF v \in Range(new) THEN "queued" ELSE st[v]]
           /\ enq' = [v \in AllPages |->
                        enq[v] + Cardinality({ i \in 1..Len(new) : new[i] = v })]
           /\ inserted' = inserted \o new
    /\ UNCHANGED << site, startup, retry, err, renders, writes, wfail, sink,
                    started, faults >>

EnqueueLinksThrew(u) == Failure(u, "links")

\* A crawl that is over as soon as the queue is empty.
IsFinishedQueueOnly == queue = <<>>

\* The crawl is over when the queue is empty and no task is running.
IsFinished == queue = <<>> /\ InFlight = {}

\* crawler.run resolves; run() logs 'Crawling complete.' and returns.
Finish ==
    /\ pc = "crawl"
    /\ IsFinished
    /\ pc' = "done"
    /\ outcome' = "complete"
    /\ exitCode' = 0
    /\ UNCHANGED << site, reply, source, crawl >>

Next ==
    \/ FetchHomepage
    \/ GenerateCleaner
    \/ BuildFunction
    \/ StartRun
    \/ Dispatch
    \/ \E u \in AllPages :
        \/ NavigationDone(u)
        \/ NavigationFailed(u)
        \/ CleanTextDone(u)
        \/ CleanTextThrew(u)
        \/ TitleDone(u)
        \/ TitleThrew(u)
        \/ IndexDone(u)
        \/ IndexFailed(u)
        \/ EnqueueLinksDone(u)
        \/ EnqueueLinksThrew(u)
    \/ Finish

Spec == Init /\ [][Next]_vars

TypeOK ==
    /\ pc \in {"fetch", "generate", "build", "run", "crawl", "done"}
    /\ site \in Sites
    /\ outcome \in {"none", "complete"} \cup StartupErrors
    /\ exitCode \in {-1, 0}
    /\ Range(queue) \subseteq Pages(site)
    /\ \A u \in AllPages :
        /\ st[u] \in {"new", "queued", "handled", "failed"} \cup InFlightStates
        /\ retry[u] \in 0..MaxRequestRetries
    /\ faults \in 0..Budget(site)


\* On the small sites, under a scheduler that keeps taking steps while one
\* is possible: Node's event loop runs every settled promise's continuation
\* and the pool starts a task whenever none is running and one is pending.
InitSmall == Init /\ site # "wide"

FairSpec == InitSmall /\ [][Next]_vars /\ WF_vars(Next)

\* ---------------------------------------------------------------- claims

Discovers(p, u) ==
    \E i \in 1..Len(Anchors(site, BaseUrl(p))) :
        /\ SameHostname(Anchors(site, BaseUrl(p))[i])
        /\ UniqueKey(Anchors(site, BaseUrl(p))[i]) = u

HandlerRunning == { u \in AllPages : st[u] \in {"clean", "title", "index", "links"} }

\* C2: at most maxConcurrency (5) request handlers have started and not
\* yet finished.
C2_ConcurrencyBound == Cardinality(HandlerRunning) <= MaxConcurrency

\* Five handlers are running while a request waits in the queue.
C2_Witness == Cardinality(HandlerRunning) = MaxConcurrency /\ queue # <<>>

Pending == {"queued", "nav", "clean", "title", "index", "links"}

\* C3: once the index write of a page a has failed, every other request b
\* that is queued or in flight is still processed to its end: it is handled
\* with its document handed to the index, unless its own processing fails
\* for good.
C3_WriteFailureIsolated ==
    \A b \in 1..3 :
        ((\E a \in 1..3 : a # b /\ wfail[a]) /\ st[b] \in Pending)
            ~> (\/ st[b] = "handled" /\ Document(b) \in sink
                \/ st[b] = "failed")

\* The write of a has just failed while b, not yet written, is queued or
\* in flight.
C3_Witness ==
    \E a, b \in AllPages :
        /\ a # b
        /\ wfail[a] /\ st[a] = "links"
        /\ st[b] \in {"queued", "nav", "clean", "title"} /\ writes[b] = 0

\* C4: after a startup failure the run is over with no page rendered and
\* no request ever added to the queue.
C4_StartupFailureBeforeCrawl ==
    outcome \in StartupErrors =>
        /\ pc = "done"
        /\ queue = <<>>
        /\ \A u \in AllPages : renders[u] = 0 /\ st[u] = "new"

\* The generated source did not compile to a function.
C4_Witness == outcome = "buildError" /\ pc = "done"

\* C5: a startup failure ends the process with a non-zero exit code.
C5_NonZeroExitOnStartupFailure ==
    (pc = "done" /\ outcome \in StartupErrors) => exitCode # 0

\* C6: once the crawl has started it reaches 'Crawling complete.', whatever
\* fails in the requests.
C6_EventuallyComplete == (pc = "crawl") ~> (pc = "done" /\ outcome = "complete")

\* The run is complete although a request used up its retries and was
\* marked failed.
C6_Witness ==
    /\ outcome = "complete"
    /\ \E u \in AllPages : st[u] = "failed"

\* C7: the run is reported complete only with the queue empty and no
\* request in flight.
C7_CompleteOnlyWhenDrained ==
    outcome = "complete" =>
        /\ queue = <<>>
        /\ \A u \in AllPages : st[u] \notin Pending

\* The run is complete after requests found by link discovery were handled.
C7_Witness ==
    /\ outcome = "complete"
    /\ \E u \in AllPages : u # Seed /\ st[u] = "handled"

\* C8: a request whose latest attempt ended with getCleanText throwing has
\* a document with empty content handed to the index.
C8_ExtractionFailureYieldsEmptyDocument ==
    \A u \in AllPages :
        (err[u] = "clean" /\ st[u] \in {"queued", "failed"}) => << u, "" >> \in sink

C10_IndexWriteAtMostOnce == \A u \in AllPages : writes[u] <= 1


\* C11: on a request's first attempt, link discovery has not waited for the
\* index write: when it is about to run, no document of the request has
\* been handed to the index.
C11_LinksBeforeIndexWrite ==
    \A u \in AllPages : (st[u] = "links" /\ retry[u] = 0) => writes[u] = 0

C13_FifoDispatch ==
    /\ Len(started) <= Len(inserted)
    /\ SubSeq(inserted, 1, Len(started)) = started

\* All requests of a site were dispatched, one of them again after a
\* failure.
C13_Witness ==
    /\ Len(started) >= 3
    /\ Len(started) = Len(inserted)
    /\ \E u \in AllPages : renders[u] >= 2

\* C14: a step that makes an index write, successful or not, takes the
\* request on to link discovery and changes nothing of the queue, of the
\* retry counts or of the other requests.
C14_IndexWriteLeavesFrontier ==
    [][\A u \in AllPages :
        writes'[u] # writes[u] =>
            /\ st'[u] = "links"
            /\ queue' = queue
            /\ retry' = retry
            /\ enq' = enq
            /\ inserted' = inserted
            /\ started' = started
            /\ \A v \in AllPages : v # u => st'[v] = st[v]]_vars

\* A request whose index write failed was handled at its first attempt and
\* the links of its page were enqueued.
C14_Witness ==
    \E u, v \in AllPages :
        /\ wfail[u] /\ st[u] = "handled" /\ retry[u] = 0
        /\ u # v /\ Discovers(u, v) /\ st[v] # "new"

\* C15: a handled request whose page has no text has had exactly one
\* document handed to the index.
C15_ExactlyOneEmptyDocument ==
    \A u \in AllPages :
        (st[u] = "handled" /\ Document(u)[2] = "") => writes[u] = 1

\* C16: the url of a request's document is the URL that was loaded, the
\* base of its link discovery.
C16_DocumentUrlIsLoadedUrl ==
    \A u \in AllPages : writes[u] > 0 => Document(u)[1] = BaseUrl(u)

\* Every anchor of the page, whatever its hostname.
Links(p) ==
    { UniqueKey(Anchors(site, BaseUrl(p))[i]) : i \in 1..Len(Anchors(site, BaseUrl(p))) }

RECURSIVE Reach(_)
Reach(S) ==
    LET T == S \cup { u \in AllPages : \E p \in S : Discovers(p, u) }
    IN  IF T = S THEN S ELSE Reach(T)

ContainsFence(s) == \E i \in 1..(Len(s) - 2) : SubSeq(s, i, i + 2) = Fence

BeginsWithToken(s) == StartsWith(ToLowerCase(s), JsToken)

\* C18 as stated: the sanitized source holds no fence, does not begin with
\* the token and is left as it is by the sanitizer.
C18_SanitizedAndIdempotent ==
    pc = "build" =>
        /\ ~ContainsFence(source)
        /\ ~BeginsWithToken(source)
        /\ Sanitize(source) = source

\* C18 as amended: the sanitized source holds no fence, and the sanitizer
\* leaves it as it is unless it still begins with the token.
C18_SanitizedOnce ==
    pc = "build" =>
        /\ ~ContainsFence(source)
        /\ BeginsWithToken(source) \/ Sanitize(source) = source

\* A reply that opens with a fence and the language name was sanitized to
\* the function's text.
C18_Witness ==
    /\ pc = "build"
    /\ reply = Fence \o JsToken \o <<"\n", "F">>
    /\ source = <<"F">>

\* C19: a step in which getCleanText or the title read throws makes no index
\* write and enqueues nothing; a request comes to link discovery only by a
\* step that makes its index write, successful or not; and only the link
\* discovery of a request inserts into the queue during the crawl.
C19_ThrowSkipsWriteAndLinks ==
    [][\A u \in AllPages :
        /\ (st[u] \in {"clean", "title"} /\ st'[u] \in {"queued", "failed"}) =>
              /\ writes' = writes
              /\ sink' = sink
              /\ enq' = enq
              /\ inserted' = inserted
        /\ (st[u] # "links" /\ st'[u] = "links") =>
              /\ st[u] = "index"
              /\ writes'[u] = writes[u] + 1
        /\ (pc = "crawl" /\ enq'[u] # enq[u]) =>
              \E p \in AllPages : st[p] = "links" /\ st'[p] = "handled"]_vars

\* The title read of one request threw before any write of it, and another
\* request whose index write failed went through link discovery.
C19_Witness ==
    \E u, v \in AllPages :
        /\ err[u] \in {"clean", "title"} /\ st[u] = "queued" /\ writes[u] = 0
        /\ wfail[v] /\ st[v] = "handled"

====
